---- MODULE Spec2Model ----
(***************************************************************************)
(* The data-acquisition core of binance_market_async_crawler:              *)
(*   bmac/market_api.py  BinanceMarketApi and its three variants           *)
(*   bhds/aws_util.py    aws_list_dir (archive paginator) and              *)
(*                       aws_download_into_folder (bulk downloader)        *)
(* Under Spec one operation runs per behaviour: Init picks the operation   *)
(* (op) and its arguments, the actions are the segments of that coroutine  *)
(* between two awaits.  Under ConcSpec a second task (peer) runs the same  *)
(* coroutine on the same event loop.  util.async_retry_getter is not among *)
(* the sources; it is modelled from section 4.1 of the specification.      *)
(***************************************************************************)
EXTENDS Integers, Sequences, FiniteSets, TLC

\* ---------------------------------------------------------------- bounds
\* largest retry cap tried (the executor's attempt cap is 1..MaxCap)
MaxCap == 3
\* klines responses start at second 0..MaxOpenTime
MaxOpenTime == 3
\* run_time is 1..MaxRunTime
MaxRunTime == 2
\* candle_close_timeout_sec is 0..MaxExpire
MaxExpire == 1
\* candles per klines response (the limit argument)
MaxLimit == 2
\* archive keys are 1..n, n <= MaxKeys
MaxKeys == 4
\* pages of a listing
MaxPages == 3

\* The wall clock runs 0..MaxNow; MaxNow is past every run_time + timeout.
MaxNow == MaxRunTime + MaxExpire + 1

\* df[...].max() of an empty frame
NaT == -1

\* no exception has left the coroutine
NoError == [type |-> "None", attempt |-> 0]

Variants == {"spot", "usdt_futures", "coin_futures"}
SymbolNames == {"BTCUSDT", "ETHUSDT"}

VARIABLES
    op,          \* the coroutine being run
    variant,     \* which BinanceMarketApi subclass self is
    pc,          \* where the coroutine stands; "done" = returned, "raised" = exception left it
    cap,         \* attempt cap of async_retry_getter
    attempts,    \* invocations of the wrapped aioreq_* / _aio_get in the current call
    exec_log,    \* the async_retry_getter call that ended last: its outcome and invocations
    err,         \* the exception that left the coroutine, or NoError
    data,        \* payload of the last successful request
    ret,         \* the value returned (meaningful once pc = "done")
    \* fetch_recent_closed_candle
    now,         \* wall clock (now_time()), seconds
    run_time,
    expire_sec,  \* self.candle_close_timeout_sec
    df,          \* local df: the parsed candles of the latest get_candle
    is_closed,
    fetches,     \* get_candle calls that returned
    sleeps,      \* asyncio.sleep(1) calls completed
    wake,        \* earliest clock value at which the pending sleep returns
    \* aws_list_dir
    pages,       \* the backing listing: a sequence of [lo, hi] key ranges
    kindOf,      \* per key: "Prefix" (CommonPrefixes) or "Key" (Contents)
    url,         \* markers appended to base_url in the current request url
    results,     \* local results list
    trail,       \* page numbers received so far, in order
    run,         \* which call of aws_list_dir on this prefix is running: 1 or 2
    first_ret,   \* what the first call returned
    \* aws_download_into_folder
    paths,       \* the archive keys to fetch
    output_dir,
    dirs,        \* the directories that exist
    procs,       \* the subprocess.run calls made, in order: args and exit status
    transferred, \* the source urls the tool has fetched into output_dir
    \* a second task on the same event loop
    peer         \* its coroutine frame: the locals of its call

apiVars  == <<op, variant, pc, cap, attempts, exec_log, err, data, ret>>
pollVars == <<now, run_time, expire_sec, df, is_closed, fetches, sleeps, wake>>
listVars == <<pages, kindOf, url, results, trail>>
rerunVars == <<run, first_ret>>
dlVars == <<paths, output_dir, dirs, procs, transferred>>
vars == <<apiVars, pollVars, listVars, rerunVars, dlVars, peer>>

Terminal == pc \in {"done", "raised"}

\* ------------------------------------------------- helpers on sequences
Range(s) == {s[i] : i \in DOMAIN s}

RECURSIVE SortedSeq(_)
SortedSeq(S) ==
    IF S = {} THEN <<>>
    ELSE LET m == CHOOSE x \in S : \A y \in S : x <= y
         IN <<m>> \o SortedSeq(S \ {m})

\* sorted(set(results))
SortedSet(s) == SortedSeq(Range(s))

\* ------------------------------------------ Retry Executor (section 4.1)
\* One invocation of the wrapped operation that fails.  Below the cap the
\* executor stays in the call and will invoke again; at the cap it surfaces
\* this (the last) failure to the caller.
RequestError(n) == [type |-> "RequestError", attempt |-> n]

async_retry_getter_fail(site) ==
    /\ pc = site
    /\ attempts < cap
    /\ attempts' = attempts + 1
    /\ IF attempts + 1 >= cap
       THEN /\ pc' = "raised"
            /\ err' = RequestError(attempts + 1)
            /\ exec_log' = [outcome |-> "raised", invoked |-> attempts + 1]
       ELSE /\ pc' = pc
            /\ err' = err
            /\ exec_log' = exec_log

\* One invocation that succeeds: the executor returns its value at once.
\* (The caller's action says where the coroutine goes on.)
async_retry_getter_ok(site) ==
    /\ pc = site
    /\ attempts < cap
    /\ attempts' = 0
    /\ exec_log' = [outcome |-> "returned", invoked |-> attempts + 1]

\* ------------------------------------------------ klines feed and candles
\* pd.to_datetime(ms, unit='ms', utc=True) moved to DEFAULT_TZ: the same
\* instant, carried as a zone-aware timestamp.
ToDatetime(ms) == [instant_ms |-> ms, tz |-> "DEFAULT_TZ"]

\* One row of a /klines answer, cut to the columns that matter here: open
\* time (ms), close (a revision of the bar's provisional values), close
\* time (ms), ignore.  Bars are one second long.
Kline(t, rev) == <<t * 1000, rev, t * 1000 + 999, 0>>

\* A klines response: up to MaxLimit consecutive bars, oldest first, the
\* oldest opening at second 0..MaxOpenTime.
KlineFeeds ==
    {<<>>} \cup
    {[i \in 1..n |-> Kline(lo + i - 1, rev)] :
        lo \in 0..MaxOpenTime, n \in 1..MaxLimit, rev \in {0, 1}}

\* market_api.py:112-116: one row per kline, in order; the two time columns
\* become timestamps and the ignore column is dropped.
DataFrame(rows) ==
    [i \in DOMAIN rows |->
        [candle_begin_time |-> ToDatetime(rows[i][1]),
         close |-> rows[i][2],
         close_time |-> ToDatetime(rows[i][3])]]

\* run_time and now_time() are whole seconds; as an instant in ms
Instant(sec) == sec * 1000

\* df['candle_begin_time'].max(): NaT on an empty frame.
MaxBeginTime(frame) ==
    IF frame = <<>> THEN NaT
    ELSE CHOOSE m \in {frame[i].candle_begin_time.instant_ms : i \in DOMAIN frame} :
            \A i \in DOMAIN frame : frame[i].candle_begin_time.instant_ms <= m

\* df['candle_begin_time'].max() >= run_time  (NaT compares False)
\* (ClosedAtPollWallClock: closure taken from the wall clock instead)
ClosedAtPollWallClock(frame, rt, clock) == clock >= rt
ClosedAtPoll(frame, rt, clock) ==
    LET m == MaxBeginTime(frame) IN m # NaT /\ m >= Instant(rt)

\* now_time() - run_time > timedelta(seconds=expire_sec)
\* (ExpiredReversed: the subtraction the wrong way round)
ExpiredReversed(clock, rt, expire) == rt - clock > expire
Expired(clock, rt, expire) == clock - rt > expire

\* df[df['candle_begin_time'] < run_time]
\* (BeforeRunTimeInclusive: <= in place of <)
BeforeRunTimeInclusive(frame, rt) ==
    SelectSeq(frame, LAMBDA c : c.candle_begin_time.instant_ms <= Instant(rt))
BeforeRunTime(frame, rt) ==
    SelectSeq(frame, LAMBDA c : c.candle_begin_time.instant_ms < Instant(rt))

\* ------------------------------------------------------------ get_candle
\* market_api.py:97, the awaited aioreq_candle succeeds: data -> df.
get_candle_ok ==
    /\ op \in {"get_candle", "fetch_recent_closed_candle"}
    /\ async_retry_getter_ok("get_candle")
    /\ \E feed \in KlineFeeds :
        /\ data' = feed
        /\ df' = DataFrame(feed)
        /\ fetches' = fetches + 1
        /\ IF op = "get_candle"
           THEN pc' = "done" /\ ret' = DataFrame(feed)
           ELSE pc' = "check" /\ ret' = ret
    /\ UNCHANGED <<op, variant, cap, err, now, run_time, expire_sec, is_closed,
                   sleeps, wake, listVars, rerunVars, dlVars, peer>>

\* The same call site without the executor: the first failure propagates.
get_candle_fail_unretried ==
    /\ op \in {"get_candle", "fetch_recent_closed_candle"}
    /\ pc = "get_candle"
    /\ attempts' = attempts + 1
    /\ pc' = "raised"
    /\ err' = RequestError(attempts + 1)
    /\ exec_log' = [outcome |-> "raised", invoked |-> attempts + 1]
    /\ UNCHANGED <<op, variant, cap, data, ret, pollVars, listVars, rerunVars, dlVars, peer>>

\* The exhausted fetch is swallowed: the poller gives back what the earlier
\* poll had, as a result that is not closed.
get_candle_fail_swallowed ==
    /\ op \in {"get_candle", "fetch_recent_closed_candle"}
    /\ pc = "get_candle"
    /\ attempts < cap
    /\ attempts' = attempts + 1
    /\ IF attempts + 1 >= cap
       THEN /\ pc' = "done"
            /\ ret' = [df |-> BeforeRunTime(df, run_time), is_closed |-> FALSE]
            /\ exec_log' = [outcome |-> "raised", invoked |-> attempts + 1]
       ELSE /\ pc' = pc
            /\ ret' = ret
            /\ exec_log' = exec_log
    /\ UNCHANGED <<op, variant, cap, err, data, pollVars, listVars, rerunVars, dlVars, peer>>

\* market_api.py:97, the awaited aioreq_candle raises.
get_candle_fail ==
    /\ op \in {"get_candle", "fetch_recent_closed_candle"}
    /\ async_retry_getter_fail("get_candle")
    /\ UNCHANGED <<op, variant, cap, data, ret, pollVars, listVars, rerunVars, dlVars, peer>>

\* --------------------------------------------- fetch_recent_closed_candle
\* The loop without its sleep: an unclosed, unexpired poll fetches again at
\* once.
poll_check_no_sleep ==
    /\ op = "fetch_recent_closed_candle"
    /\ pc = "check"
    /\ IF ClosedAtPoll(df, run_time, now)
       THEN /\ is_closed' = TRUE
            /\ pc' = "done"
            /\ ret' = [df |-> BeforeRunTime(df, run_time), is_closed |-> TRUE]
       ELSE IF Expired(now, run_time, expire_sec)
       THEN /\ is_closed' = is_closed
            /\ pc' = "done"
            /\ ret' = [df |-> BeforeRunTime(df, run_time), is_closed |-> is_closed]
       ELSE /\ is_closed' = is_closed
            /\ pc' = "get_candle"
            /\ ret' = ret
    /\ UNCHANGED <<op, variant, cap, attempts, exec_log, err, data, now, run_time,
                   expire_sec, df, fetches, sleeps, wake, listVars, rerunVars, dlVars, peer>>

\* The two checks in the other order: the timeout is looked at first.
poll_check_timeout_first ==
    /\ op = "fetch_recent_closed_candle"
    /\ pc = "check"
    /\ IF Expired(now, run_time, expire_sec)
       THEN /\ is_closed' = is_closed
            /\ pc' = "done"
            /\ ret' = [df |-> BeforeRunTime(df, run_time), is_closed |-> is_closed]
            /\ wake' = wake
       ELSE IF ClosedAtPoll(df, run_time, now)
       THEN /\ is_closed' = TRUE
            /\ pc' = "done"
            /\ ret' = [df |-> BeforeRunTime(df, run_time), is_closed |-> TRUE]
            /\ wake' = wake
       ELSE /\ is_closed' = is_closed
            /\ pc' = "sleep"
            /\ ret' = ret
            /\ wake' = now + 1
    /\ UNCHANGED <<op, variant, cap, attempts, exec_log, err, data, now, run_time,
                   expire_sec, df, fetches, sleeps, listVars, rerunVars, dlVars, peer>>

\* market_api.py:128-137: the closure check, then the timeout check, then
\* either the return or the start of asyncio.sleep(1).
poll_check ==
    /\ op = "fetch_recent_closed_candle"
    /\ pc = "check"
    /\ IF ClosedAtPoll(df, run_time, now)
       THEN /\ is_closed' = TRUE
            /\ pc' = "done"
            /\ ret' = [df |-> BeforeRunTime(df, run_time), is_closed |-> TRUE]
            /\ wake' = wake
       ELSE IF Expired(now, run_time, expire_sec)
       THEN /\ is_closed' = is_closed
            /\ pc' = "done"
            /\ ret' = [df |-> BeforeRunTime(df, run_time), is_closed |-> is_closed]
            /\ wake' = wake
       ELSE /\ is_closed' = is_closed
            /\ pc' = "sleep"
            /\ ret' = ret
            /\ wake' = now + 1
    /\ UNCHANGED <<op, variant, cap, attempts, exec_log, err, data, now, run_time,
                   expire_sec, df, fetches, sleeps, listVars, rerunVars, dlVars, peer>>

\* market_api.py:136: asyncio.sleep(1) returns once a second has passed;
\* the loop then calls get_candle again (a new executor call).
poll_wake ==
    /\ op = "fetch_recent_closed_candle"
    /\ pc = "sleep"
    /\ now >= wake
    /\ pc' = "get_candle"
    /\ sleeps' = sleeps + 1
    /\ UNCHANGED <<op, variant, cap, attempts, exec_log, err, data, ret, now, run_time, expire_sec,
                   df, is_closed, fetches, wake, listVars, rerunVars, dlVars, peer>>

\* The wall clock advances while the poller is suspended or between steps.
Tick ==
    /\ op = "fetch_recent_closed_candle"
    /\ ~Terminal
    /\ now < MaxNow
    /\ now' = now + 1
    /\ UNCHANGED <<apiVars, run_time, expire_sec, df, is_closed, fetches,
                   sleeps, wake, listVars, rerunVars, dlVars, peer>>


\* ------------------------------------------- archive listing (the server)
\* A listing of keys 1..n is cut into pages, each a range lo..hi of keys in
\* ascending order.  A page starts right after the previous one or repeats
\* its boundary key, and always brings at least one new key.
\* The pages that end at the keys his (ascending); overlap[i] says whether
\* page i + 1 repeats the last key of page i.
PagesOf(his, overlap) ==
    [i \in DOMAIN his |->
        [lo |-> IF i = 1 THEN 1
                ELSE IF overlap[i - 1] THEN his[i - 1] ELSE his[i - 1] + 1,
         hi |-> his[i]]]

Listings(n) ==
    IF n = 0 THEN {<<[lo |-> 1, hi |-> 0]>>}
    ELSE UNION {
        {PagesOf(SortedSeq(H), overlap) : overlap \in [1..(Cardinality(H) - 1) -> BOOLEAN]}
        : H \in {X \in SUBSET (1..n) : n \in X /\ Cardinality(X) <= MaxPages} }

\* the keys of page i, in order
PageKeys(i) == [j \in 1..(pages[i].hi - pages[i].lo + 1) |-> pages[i].lo + j - 1]

PagePrefixes(i) == SelectSeq(PageKeys(i), LAMBDA k : kindOf[k] = "Prefix")
PageContents(i) == SelectSeq(PageKeys(i), LAMBDA k : kindOf[k] = "Key")

\* The page the server answers a request url with: the first page without a
\* marker, the page after the one that ended at the marker otherwise.
ServerPage(u) ==
    IF u = <<>> THEN 1
    ELSE LET m == u[Len(u)]
             S == {i \in 1..(Len(pages) - 1) : pages[i].hi = m}
         IN IF S = {} THEN 1 ELSE (CHOOSE i \in S : TRUE) + 1

\* xmltodict.parse on repeated child elements: two or more become a list of
\* dicts, a single one becomes that dict itself (no force_list is given).
XmlChildren(items, tag) ==
    IF Len(items) = 1
    THEN [kind |-> "dict", items |-> <<tag :> items[1]>>]
    ELSE [kind |-> "list", items |-> [j \in DOMAIN items |-> tag :> items[j]]]

\* _aio_get: the ListBucketResult of page i as xmltodict.parse returns it.
\* NextMarker is the last key of a truncated response.
ListBucketResult(i) ==
    LET truncated == i < Len(pages)
        P == PagePrefixes(i)
        K == PageContents(i)
    IN  ("IsTruncated" :> (IF truncated THEN "true" ELSE "false"))
        @@ (IF truncated THEN "NextMarker" :> pages[i].hi ELSE <<>>)
        @@ (IF P # <<>> THEN "CommonPrefixes" :> XmlChildren(P, "Prefix") ELSE <<>>)
        @@ (IF K # <<>> THEN "Contents" :> XmlChildren(K, "Key") ELSE <<>>)

\* ----------------------------------------------------------- aws_list_dir
\* [x[tag] for x in children]: iterating a list yields its dicts; iterating
\* a single dict yields its key strings, and indexing a string by tag raises
\* TypeError.
Comprehension(children, tag) ==
    IF children.kind = "list"
    THEN [ok |-> TRUE, keys |-> [j \in DOMAIN children.items |-> children.items[j][tag]]]
    ELSE [ok |-> FALSE, keys |-> <<>>]

\* aws_util.py:53-56: what one response adds to results
PageEntries(xml_data) ==
    IF "CommonPrefixes" \in DOMAIN xml_data
    THEN Comprehension(xml_data["CommonPrefixes"], "Prefix")
    ELSE IF "Contents" \in DOMAIN xml_data
    THEN Comprehension(xml_data["Contents"], "Key")
    ELSE [ok |-> TRUE, keys |-> <<>>]

\* aws_util.py:59: url = base_url + '&marker=' + xml_data['NextMarker']
\* (NextUrlAccumulated: the marker appended to the previous url instead)
NextUrlAccumulated(base_url, cur_url, xml_data) ==
    cur_url \o <<xml_data["NextMarker"]>>
NextUrl(base_url, cur_url, xml_data) ==
    base_url \o <<xml_data["NextMarker"]>>

\* url = PATH_API_URL + path; base_url = url  (no marker)
base_url == <<>>

\* aws_util.py:51-62, the awaited _aio_get succeeds: the response is added
\* to results, and the loop either goes on to the next request or ends with
\* sorted(set(results)).
aws_list_dir_ok ==
    /\ op = "aws_list_dir"
    /\ async_retry_getter_ok("list")
    /\ LET i == ServerPage(url)
           xml_data == ListBucketResult(i)
           e == PageEntries(xml_data)
       IN /\ trail' = Append(trail, i)
          /\ data' = xml_data
          /\ IF ~e.ok
             THEN /\ pc' = "raised"
                  /\ err' = [type |-> "TypeError", attempt |-> 0]
                  /\ UNCHANGED <<results, url, ret>>
             ELSE IF xml_data["IsTruncated"] = "false"
             THEN /\ pc' = "done"
                  /\ results' = SortedSet(results \o e.keys)
                  /\ ret' = SortedSet(results \o e.keys)
                  /\ UNCHANGED <<url, err>>
             ELSE /\ pc' = "list"
                  /\ results' = results \o e.keys
                  /\ url' = NextUrl(base_url, url, xml_data)
                  /\ UNCHANGED <<ret, err>>
    /\ UNCHANGED <<op, variant, cap, pollVars, pages, kindOf, rerunVars, dlVars, peer>>

\* The page fetch fails on its last attempt and the listing swallows it,
\* returning what it has.
aws_list_dir_fail_partial ==
    /\ op = "aws_list_dir"
    /\ pc = "list"
    /\ attempts < cap
    /\ attempts' = attempts + 1
    /\ IF attempts + 1 >= cap
       THEN /\ pc' = "done"
            /\ ret' = SortedSet(results)
            /\ exec_log' = [outcome |-> "raised", invoked |-> attempts + 1]
       ELSE /\ pc' = pc
            /\ ret' = ret
            /\ exec_log' = exec_log
    /\ UNCHANGED <<op, variant, cap, err, data, pollVars, pages, kindOf, url,
                   results, trail, rerunVars, dlVars, peer>>

\* aws_util.py:51, the awaited _aio_get raises: retried by the executor,
\* and past the cap the exception leaves aws_list_dir (nothing catches it).
aws_list_dir_fail ==
    /\ op = "aws_list_dir"
    /\ async_retry_getter_fail("list")
    /\ UNCHANGED <<op, variant, cap, data, ret, pollVars, pages, kindOf, url,
                   results, trail, rerunVars, dlVars, peer>>

\* The second call keeps the url the first call ended with.
aws_list_dir_again_stale_url ==
    /\ op = "aws_list_dir"
    /\ pc = "done"
    /\ run = 1
    /\ run' = 2
    /\ first_ret' = ret
    /\ pc' = "list"
    /\ url' = url
    /\ results' = <<>>
    /\ trail' = <<>>
    /\ ret' = <<>>
    /\ UNCHANGED <<op, variant, cap, attempts, exec_log, err, data, pollVars, pages,
                   kindOf, dlVars, peer>>

\* aws_util.py:46-48, the caller lists the same prefix a second time after
\* the first call has returned: url, base_url and results start afresh, the
\* backing listing is as it was.
aws_list_dir_again ==
    /\ op = "aws_list_dir"
    /\ pc = "done"
    /\ run = 1
    /\ run' = 2
    /\ first_ret' = ret
    /\ pc' = "list"
    /\ url' = base_url
    /\ results' = <<>>
    /\ trail' = <<>>
    /\ ret' = <<>>
    /\ UNCHANGED <<op, variant, cap, attempts, exec_log, err, data, pollVars, pages,
                   kindOf, dlVars, peer>>

\* ------------------------------------------------ get_timestamp_and_weight
\* what /time answers: serverTime and the X-MBX-USED-WEIGHT-1M header
TimeResponses == {<<ms, w>> : ms \in {1000, 61000}, w \in {1, 2400}}

\* market_api.py:79-81, the awaited aioreq_timestamp_and_weight succeeds.
get_timestamp_and_weight_ok ==
    /\ op = "get_timestamp_and_weight"
    /\ async_retry_getter_ok("get_timestamp_and_weight")
    /\ \E r \in TimeResponses :
        /\ data' = r
        /\ ret' = <<ToDatetime(r[1]), r[2]>>
    /\ pc' = "done"
    /\ UNCHANGED <<op, variant, cap, err, pollVars, listVars, rerunVars, dlVars, peer>>

\* market_api.py:79, the awaited aioreq_timestamp_and_weight raises.
get_timestamp_and_weight_fail ==
    /\ op = "get_timestamp_and_weight"
    /\ async_retry_getter_fail("get_timestamp_and_weight")
    /\ UNCHANGED <<op, variant, cap, data, ret, pollVars, listVars, rerunVars, dlVars, peer>>

\* -------------------------------------------------------- get_funding_rate
\* pd.to_numeric(s, errors='coerce'): the number, or NaN when s is not one.
\* Rates are carried in units of 1e-4.
ToNumeric(s) ==
    CASE s = "0.0001" -> [float |-> 1]
      [] s = "-0.0002" -> [float |-> -2]
      [] OTHER -> [float |-> "nan"]

\* what /premiumIndex answers on the futures variants
PremiumIndexes ==
    {<<>>} \cup
    {<<[symbol |-> sym, lastFundingRate |-> r]>> :
        sym \in SymbolNames, r \in {"0.0001", "-0.0002", ""}}

\* market_api.py:86-90: the records the DataFrame is built from
FundingRecords(payload) ==
    [i \in DOMAIN payload |->
        [symbol |-> payload[i].symbol,
         fundingRate |-> ToNumeric(payload[i].lastFundingRate)]]

\* market_api.py:84-91 on a futures variant, aioreq_premium_index succeeds.
\* The call is awaited directly: no async_retry_getter around it.
get_funding_rate_ok ==
    /\ op = "get_funding_rate"
    /\ pc = "get_funding_rate"
    /\ variant # "spot"
    /\ attempts' = attempts + 1
    /\ \E payload \in PremiumIndexes :
        /\ data' = payload
        /\ ret' = FundingRecords(payload)
    /\ pc' = "done"
    /\ UNCHANGED <<op, variant, cap, exec_log, err, pollVars, listVars, rerunVars, dlVars, peer>>

\* market_api.py:84 on a futures variant, aioreq_premium_index raises: the
\* exception leaves get_funding_rate at once.
get_funding_rate_fail ==
    /\ op = "get_funding_rate"
    /\ pc = "get_funding_rate"
    /\ variant # "spot"
    /\ attempts' = attempts + 1
    /\ pc' = "raised"
    /\ err' = RequestError(attempts + 1)
    /\ UNCHANGED <<op, variant, cap, exec_log, data, ret, pollVars, listVars, rerunVars, dlVars, peer>>

\* market_api.py:273-274 and 84-89 on the spot variant: aioreq_premium_index
\* is `pass`, so data is None, and `for d in data` raises TypeError.
get_funding_rate_spot ==
    /\ op = "get_funding_rate"
    /\ pc = "get_funding_rate"
    /\ variant = "spot"
    /\ data' = [py |-> "None"]
    /\ pc' = "raised"
    /\ err' = [type |-> "TypeError", attempt |-> 0]
    /\ UNCHANGED <<op, variant, cap, attempts, exec_log, ret, pollVars, listVars, rerunVars, dlVars, peer>>

\* ------------------------------------------------------------- get_syminfo
\* JSON values as Python sees them
PyStr(x) == [py |-> "str", v |-> x]
PyNone == [py |-> "None", v |-> ""]

\* strings that decimal.Decimal accepts, and one it does not
DecimalLiterals == {"0.01"}
FieldValues == {PyStr("0.01"), PyStr("abc"), PyNone}
\* the exchange sends no filter of that type
Absent == [py |-> "absent", v |-> ""]

\* decimal.Decimal(x): the exact digits of a numeric string; TypeError on
\* None; InvalidOperation on a string that is no number.
Decimal(x) ==
    IF x.py = "None" THEN [ok |-> FALSE, val |-> "TypeError"]
    ELSE IF x.v \in DecimalLiterals THEN [ok |-> TRUE, val |-> [py |-> "Decimal", v |-> x.v]]
    ELSE [ok |-> FALSE, val |-> "InvalidOperation"]

\* market_api.py:13-16: the field of the first filter of that type; None
\* when no filter has the type.
get_from_filters(filters, filter_type, field_name) ==
    LET S == {i \in DOMAIN filters : filters[i]["filterType"] = filter_type}
    IN IF S = {} THEN PyNone
       ELSE filters[CHOOSE i \in S : \A j \in S : i <= j][field_name]

\* the name of the notional filter and of its field in each variant's
\* exchangeInfo
NotionalFilter(v) ==
    IF v = "spot" THEN <<"NOTIONAL", "minNotional">> ELSE <<"MIN_NOTIONAL", "notional">>

\* One filter of a symbol, or none when the exchange does not send it.
FilterOf(type, field, x) ==
    IF x = Absent THEN <<>> ELSE <<("filterType" :> type) @@ (field :> x)>>

\* The symbols entries /exchangeInfo can answer for variant v.  Coin-margined
\* futures have no notional filter.
SymbolInfos(v, sym) ==
    {   ("symbol" :> sym)
     @@ ((IF v = "coin_futures" THEN "contractStatus" ELSE "status") :> "TRADING")
     @@ ("baseAsset" :> "BTC") @@ ("quoteAsset" :> "USDT")
     @@ (IF v = "spot" THEN <<>>
         ELSE ("contractType" :> "PERPETUAL") @@ ("marginAsset" :> "USDT"))
     @@ ("filters" :>
            (FilterOf("PRICE_FILTER", "tickSize", t)
             \o FilterOf("LOT_SIZE", "stepSize", st)
             \o FilterOf(NotionalFilter(v)[1], NotionalFilter(v)[2], n)))
     : t \in FieldValues \cup {Absent},
       st \in FieldValues \cup {Absent},
       n \in IF v = "coin_futures" THEN {Absent} ELSE FieldValues \cup {Absent}}

\* exg_info['symbols']: no symbol, one, or two
SymbolOrders == {<<>>, <<"BTCUSDT">>, <<"BTCUSDT", "ETHUSDT">>}

ExchangeInfos(v) ==
    UNION {
        {s \in [DOMAIN o -> UNION {SymbolInfos(v, sym) : sym \in SymbolNames}] :
            \A i \in DOMAIN o : s[i]["symbol"] = o[i]}
        : o \in SymbolOrders }

\* The dict literal of parse_syminfo: the Decimal fields are evaluated in
\* order, and the first that raises ends the call.
Rule(plain, decimals) ==
    LET bad == {i \in DOMAIN decimals : ~decimals[i][2].ok}
    IN IF bad # {}
       THEN [ok |-> FALSE,
             val |-> decimals[CHOOSE i \in bad : \A j \in bad : i <= j][2].val]
       ELSE [ok |-> TRUE,
             val |-> plain @@ [k \in {decimals[i][1] : i \in DOMAIN decimals} |->
                        LET i == CHOOSE i \in DOMAIN decimals : decimals[i][1] = k
                        IN decimals[i][2].val]]

\* market_api.py:183-196
parse_syminfo_usdt(info) ==
    LET filters == info["filters"]
    IN Rule(   ("symbol" :> info["symbol"])
            @@ ("contract_type" :> info["contractType"])
            @@ ("status" :> info["status"])
            @@ ("base_asset" :> info["baseAsset"])
            @@ ("quote_asset" :> info["quoteAsset"])
            @@ ("margin_asset" :> info["marginAsset"]),
            << <<"price_tick", Decimal(get_from_filters(filters, "PRICE_FILTER", "tickSize"))>>,
               <<"face_value", Decimal(get_from_filters(filters, "LOT_SIZE", "stepSize"))>>,
               <<"min_notional_value",
                 Decimal(get_from_filters(filters, "MIN_NOTIONAL", "notional"))>> >>)

\* market_api.py:232-244
parse_syminfo_coin(info) ==
    LET filters == info["filters"]
    IN Rule(   ("symbol" :> info["symbol"])
            @@ ("contract_type" :> info["contractType"])
            @@ ("status" :> info["contractStatus"])
            @@ ("base_asset" :> info["baseAsset"])
            @@ ("quote_asset" :> info["quoteAsset"])
            @@ ("margin_asset" :> info["marginAsset"]),
            << <<"price_tick", Decimal(get_from_filters(filters, "PRICE_FILTER", "tickSize"))>>,
               <<"face_value", Decimal(get_from_filters(filters, "LOT_SIZE", "stepSize"))>> >>)

\* market_api.py:276-287
parse_syminfo_spot(info) ==
    LET filters == info["filters"]
    IN Rule(   ("symbol" :> info["symbol"])
            @@ ("status" :> info["status"])
            @@ ("base_asset" :> info["baseAsset"])
            @@ ("quote_asset" :> info["quoteAsset"]),
            << <<"price_tick", Decimal(get_from_filters(filters, "PRICE_FILTER", "tickSize"))>>,
               <<"face_value", Decimal(get_from_filters(filters, "LOT_SIZE", "stepSize"))>>,
               <<"min_notional_value",
                 Decimal(get_from_filters(filters, "NOTIONAL", "minNotional"))>> >>)

\* self.parse_syminfo(info): the subclass's classmethod
parse_syminfo(v, info) ==
    CASE v = "usdt_futures" -> parse_syminfo_usdt(info)
      [] v = "coin_futures" -> parse_syminfo_coin(info)
      [] v = "spot" -> parse_syminfo_spot(info)

\* market_api.py:143-147, the awaited aioreq_exchange_info succeeds: every
\* symbol is parsed in turn; the first parse that raises ends get_syminfo.
get_syminfo_ok ==
    /\ op = "get_syminfo"
    /\ async_retry_getter_ok("get_syminfo")
    /\ \E symbols \in ExchangeInfos(variant) :
        LET bad == {i \in DOMAIN symbols : ~parse_syminfo(variant, symbols[i]).ok}
        IN /\ data' = symbols
           /\ IF bad # {}
              THEN /\ pc' = "raised"
                   /\ err' = [type |-> parse_syminfo(variant,
                                  symbols[CHOOSE i \in bad : \A j \in bad : i <= j]).val,
                              attempt |-> 0]
                   /\ ret' = ret
              ELSE /\ pc' = "done"
                   /\ err' = err
                   /\ ret' = [sym \in {symbols[i]["symbol"] : i \in DOMAIN symbols} |->
                                parse_syminfo(variant,
                                    symbols[CHOOSE i \in DOMAIN symbols :
                                                symbols[i]["symbol"] = sym]).val]
    /\ UNCHANGED <<op, variant, cap, pollVars, listVars, rerunVars, dlVars, peer>>

\* market_api.py:143, the awaited aioreq_exchange_info raises.
get_syminfo_fail ==
    /\ op = "get_syminfo"
    /\ async_retry_getter_fail("get_syminfo")
    /\ UNCHANGED <<op, variant, cap, data, ret, pollVars, listVars, rerunVars, dlVars, peer>>

\* ------------------------------------------------ aws_download_into_folder
\* at most MaxPaths keys are handed to one download
MaxPaths == 2

\* A string is carried as the sequence of its pieces, so that + is \o.
PREFIX == <<"https://s3-ap-northeast-1.amazonaws.com/data.binance.vision">>
\* DOWNLOAD_URL = f'{PREFIX}/'
DOWNLOAD_URL == PREFIX \o <<"/">>

\* archive keys as aws_list_dir returns them
ArchiveKeys ==
    {<<"data/spot/daily/klines/BTCUSDT/1m/", "BTCUSDT-1m-2024-01-01.zip">>,
     <<"data/spot/daily/klines/BTCUSDT/1m/", "BTCUSDT-1m-2024-01-02.zip">>,
     <<"data/spot/daily/klines/BTCUSDT/1m/", "BTCUSDT-1m-2024-01-02.zip", ".CHECKSUM">>}

\* the lists of keys a caller passes: any order, repeats allowed
KeyLists == UNION {[1..n -> ArchiveKeys] : n \in 0..MaxPaths}

\* destination directories, as their path components
OutputDirs == {<<"candles">>, <<"candles", "BTCUSDT">>}

\* os.makedirs(d, exist_ok=True): d and every missing parent exist afterwards
makedirs(existing, d) == existing \cup {SubSeq(d, 1, k) : k \in 1..Len(d)}

\* aws_util.py:67: [DOWNLOAD_URL + p for p in paths]
\* (SourceUrlsNoSlash: the key appended to PREFIX, without the separator)
SourceUrlsNoSlash(ps) == [i \in DOMAIN ps |-> PREFIX \o ps[i]]
SourceUrls(ps) == [i \in DOMAIN ps |-> DOWNLOAD_URL \o ps[i]]

\* aws_util.py:68: ['aria2c', '-c', '-d', output_dir, '-Z'] + paths
Command(urls, dir) == <<<<"aria2c">>, <<"-c">>, <<"-d">>, dir, <<"-Z">>>> \o urls

\* aws_util.py:65-70, aria2c runs and exits.  Status 0 means that every uri
\* was fetched; any other status leaves some uri unfetched (or there was
\* none to fetch).  subprocess.run is called without check=True and its
\* CompletedProcess is dropped, so the function returns None either way.
aws_download_into_folder ==
    /\ op = "aws_download_into_folder"
    /\ pc = "aws_download_into_folder"
    /\ dirs' = makedirs(dirs, output_dir)
    /\ LET urls == SourceUrls(paths)
           cmd == Command(urls, output_dir)
       IN \E rc \in {0, 1}, got \in SUBSET Range(urls) :
            /\ rc = 0 => got = Range(urls)
            /\ rc # 0 => (got # Range(urls) \/ urls = <<>>)
            /\ procs' = Append(procs, [args |-> cmd, returncode |-> rc])
            /\ transferred' = got
    /\ pc' = "done"
    /\ ret' = PyNone
    /\ UNCHANGED <<op, variant, cap, attempts, exec_log, err, data, pollVars, listVars,
                   rerunVars, paths, output_dir, peer>>

\* aws_util.py:70, no aria2c on the PATH: subprocess.run raises
\* FileNotFoundError before any process exists.
aws_download_into_folder_no_tool ==
    /\ op = "aws_download_into_folder"
    /\ pc = "aws_download_into_folder"
    /\ dirs' = makedirs(dirs, output_dir)
    /\ pc' = "raised"
    /\ err' = [type |-> "FileNotFoundError", attempt |-> 0]
    /\ UNCHANGED <<op, variant, cap, attempts, exec_log, data, ret, pollVars, listVars,
                   rerunVars, paths, output_dir, procs, transferred, peer>>

\* ------------------------------------------- a second task on the same loop
\* A second coroutine runs the same function on the same event loop: the
\* same API instance (session, candle_close_timeout_sec), the same retry
\* policy, clock and archive.  Its locals (run_time, df, is_closed, url,
\* results, ...) are those of its own call and live in peer.
PeerFrame(entry, rt) ==
    [pc |-> entry, attempts |-> 0, err |-> NoError, data |-> <<>>, ret |-> <<>>,
     run_time |-> rt, df |-> <<>>, is_closed |-> FALSE, wake |-> 0,
     url |-> base_url, results |-> <<>>]

PeerRuns == peer.pc \notin {"none", "done", "raised"}

\* what /klines answers for the peer's symbol (told apart by the close):
\* nothing, the bar before run_time alone, or that bar and the next one
PeerKlineFeeds(rt) ==
    {<<>>, <<Kline(rt - 1, 2)>>, <<Kline(rt - 1, 2), Kline(rt, 2)>>}

\* The peer's fetch lands in a df that belongs to the API instance, not to
\* the call.
peer_get_candle_ok_shared_df ==
    /\ op = "fetch_recent_closed_candle"
    /\ peer.pc = "get_candle"
    /\ peer.attempts < cap
    /\ \E feed \in PeerKlineFeeds(peer.run_time) :
        /\ peer' = [peer EXCEPT !.attempts = 0, !.data = feed,
                                !.df = DataFrame(feed), !.pc = "check"]
        /\ df' = DataFrame(feed)
    /\ UNCHANGED <<apiVars, now, run_time, expire_sec, is_closed, fetches, sleeps, wake,
                   listVars, rerunVars, dlVars>>

\* market_api.py:97 and 126 in the peer: its get_candle returns.
peer_get_candle_ok ==
    /\ op = "fetch_recent_closed_candle"
    /\ peer.pc = "get_candle"
    /\ peer.attempts < cap
    /\ \E feed \in PeerKlineFeeds(peer.run_time) :
        peer' = [peer EXCEPT !.attempts = 0, !.data = feed,
                             !.df = DataFrame(feed), !.pc = "check"]
    /\ UNCHANGED <<apiVars, pollVars, listVars, rerunVars, dlVars>>

\* market_api.py:97 in the peer: its aioreq_candle raises; retried below
\* the cap, raised to the peer's caller at the cap.
peer_get_candle_fail ==
    /\ op = "fetch_recent_closed_candle"
    /\ peer.pc = "get_candle"
    /\ peer.attempts < cap
    /\ peer' = IF peer.attempts + 1 >= cap
               THEN [peer EXCEPT !.attempts = @ + 1, !.pc = "raised",
                                 !.err = RequestError(peer.attempts + 1)]
               ELSE [peer EXCEPT !.attempts = @ + 1]
    /\ UNCHANGED <<apiVars, pollVars, listVars, rerunVars, dlVars>>

\* market_api.py:128-137 in the peer
peer_poll_check ==
    /\ op = "fetch_recent_closed_candle"
    /\ peer.pc = "check"
    /\ peer' =
         IF ClosedAtPoll(peer.df, peer.run_time, now)
         THEN [peer EXCEPT !.is_closed = TRUE, !.pc = "done",
                  !.ret = [df |-> BeforeRunTime(peer.df, peer.run_time), is_closed |-> TRUE]]
         ELSE IF Expired(now, peer.run_time, expire_sec)
         THEN [peer EXCEPT !.pc = "done",
                  !.ret = [df |-> BeforeRunTime(peer.df, peer.run_time),
                           is_closed |-> peer.is_closed]]
         ELSE [peer EXCEPT !.pc = "sleep", !.wake = now + 1]
    /\ UNCHANGED <<apiVars, pollVars, listVars, rerunVars, dlVars>>

\* market_api.py:136 in the peer: its asyncio.sleep(1) returns
peer_poll_wake ==
    /\ op = "fetch_recent_closed_candle"
    /\ peer.pc = "sleep"
    /\ now >= peer.wake
    /\ peer' = [peer EXCEPT !.pc = "get_candle"]
    /\ UNCHANGED <<apiVars, pollVars, listVars, rerunVars, dlVars>>

\* The wall clock advances while only the peer is still running.
peer_Tick ==
    /\ op = "fetch_recent_closed_candle"
    /\ Terminal
    /\ PeerRuns
    /\ now < MaxNow
    /\ now' = now + 1
    /\ UNCHANGED <<apiVars, run_time, expire_sec, df, is_closed, fetches,
                   sleeps, wake, listVars, rerunVars, dlVars, peer>>

\* aws_util.py:51-62 in the peer: its _aio_get returns
peer_aws_list_dir_ok ==
    /\ op = "aws_list_dir"
    /\ peer.pc = "list"
    /\ peer.attempts < cap
    /\ LET xml_data == ListBucketResult(ServerPage(peer.url))
           e == PageEntries(xml_data)
       IN peer' =
            IF ~e.ok
            THEN [peer EXCEPT !.attempts = 0, !.data = xml_data, !.pc = "raised",
                              !.err = [type |-> "TypeError", attempt |-> 0]]
            ELSE IF xml_data["IsTruncated"] = "false"
            THEN [peer EXCEPT !.attempts = 0, !.data = xml_data, !.pc = "done",
                              !.results = SortedSet(peer.results \o e.keys),
                              !.ret = SortedSet(peer.results \o e.keys)]
            ELSE [peer EXCEPT !.attempts = 0, !.data = xml_data,
                              !.results = peer.results \o e.keys,
                              !.url = NextUrl(base_url, peer.url, xml_data)]
    /\ UNCHANGED <<apiVars, pollVars, listVars, rerunVars, dlVars>>

\* aws_util.py:51 in the peer: its _aio_get raises
peer_aws_list_dir_fail ==
    /\ op = "aws_list_dir"
    /\ peer.pc = "list"
    /\ peer.attempts < cap
    /\ peer' = IF peer.attempts + 1 >= cap
               THEN [peer EXCEPT !.attempts = @ + 1, !.pc = "raised",
                                 !.err = RequestError(peer.attempts + 1)]
               ELSE [peer EXCEPT !.attempts = @ + 1]
    /\ UNCHANGED <<apiVars, pollVars, listVars, rerunVars, dlVars>>

\* ------------------------------------------------------------------ Init
\* fetch_recent_closed_candle is defined once, in the base class; the three
\* variants differ only in the url aioreq_candle asks, so one stands for all.
InitPoll ==
    /\ op = "fetch_recent_closed_candle"
    /\ variant = "usdt_futures"
    /\ pc = "get_candle"
    /\ now \in 0..MaxNow
    /\ run_time \in 1..MaxRunTime
    /\ expire_sec \in 0..MaxExpire

NoPoll == now = 0 /\ run_time = 0 /\ expire_sec = 0
NoListing == pages = <<>> /\ kindOf = <<>>
NoDownload == paths = <<>> /\ output_dir = <<>> /\ dirs = {}
\* no second task
NoPeer == [pc |-> "none"]

InitCandle ==
    /\ op = "get_candle"
    /\ variant \in Variants
    /\ pc = "get_candle"
    /\ NoPoll

\* the three other public operations, on every variant
InitApi ==
    /\ op \in {"get_timestamp_and_weight", "get_funding_rate", "get_syminfo"}
    /\ variant \in Variants
    /\ pc = op
    /\ NoPoll

\* aws_list_dir(path) against a backing listing of n keys
InitList ==
    /\ op = "aws_list_dir"
    /\ variant = "spot"
    /\ pc = "list"
    /\ NoPoll
    /\ \E n \in 0..MaxKeys :
        /\ kindOf \in [1..n -> {"Prefix", "Key"}]
        /\ pages \in Listings(n)

\* aws_download_into_folder(paths, output_dir); the directory or some of its
\* parents may exist already
InitDownload ==
    /\ op = "aws_download_into_folder"
    /\ variant = "spot"
    /\ pc = "aws_download_into_folder"
    /\ NoPoll
    /\ paths \in KeyLists
    /\ output_dir \in OutputDirs
    /\ dirs \in {{}, {<<"candles">>}, {<<"candles">>, <<"candles", "BTCUSDT">>}}

\* every variable but peer
InitLocals ==
    /\ cap \in 1..MaxCap
    /\ attempts = 0
    /\ exec_log = [outcome |-> "none", invoked |-> 0]
    /\ err = NoError
    /\ data = <<>>
    /\ ret = <<>>
    /\ df = <<>>
    /\ is_closed = FALSE
    /\ fetches = 0
    /\ sleeps = 0
    /\ wake = 0
    /\ url = <<>> /\ results = <<>>
    /\ trail = <<>>
    /\ run = 1 /\ first_ret = <<>>
    /\ procs = <<>> /\ transferred = {}
    /\ \/ InitPoll /\ NoListing /\ NoDownload
       \/ InitCandle /\ NoListing /\ NoDownload
       \/ InitApi /\ NoListing /\ NoDownload
       \/ InitList /\ NoDownload
       \/ InitDownload /\ NoListing

\* one task at a time
Init == InitLocals /\ peer = NoPeer

Next ==
    \/ get_candle_ok
    \/ get_candle_fail
    \/ aws_list_dir_ok
    \/ aws_list_dir_fail
    \/ aws_list_dir_again
    \/ get_timestamp_and_weight_ok
    \/ get_timestamp_and_weight_fail
    \/ get_funding_rate_ok
    \/ get_funding_rate_fail
    \/ get_funding_rate_spot
    \/ get_syminfo_ok
    \/ get_syminfo_fail
    \/ poll_check
    \/ poll_wake
    \/ Tick
    \/ aws_download_into_folder
    \/ aws_download_into_folder_no_tool

Spec == Init /\ [][Next]_vars

\* fetch_recent_closed_candle alone, with the event loop running the task
\* whenever it can run and the wall clock advancing.
PollInit == Init /\ op = "fetch_recent_closed_candle"

PollNext ==
    \/ get_candle_ok
    \/ get_candle_fail
    \/ poll_check
    \/ poll_wake
    \/ Tick

FairSpec == PollInit /\ [][PollNext]_vars /\ WF_vars(PollNext)

\* Two tasks started together and interleaved by the event loop at their
\* awaits: two pollers with their own run_time, or two listings of the same
\* prefix.  The pollers start at clock 0 (it may advance before either
\* fetches) on an instance with candle_close_timeout_sec = 0 and a retry
\* policy of a single attempt.
ConcInit ==
    /\ InitLocals
    /\ \/ /\ op = "fetch_recent_closed_candle"
          /\ now = 0 /\ expire_sec = 0 /\ cap = 1
          /\ \E rt \in 1..MaxRunTime : peer = PeerFrame("get_candle", rt)
       \/ /\ op = "aws_list_dir"
          /\ peer = PeerFrame("list", 0)

ConcNext ==
    \/ get_candle_ok
    \/ get_candle_fail
    \/ poll_check
    \/ poll_wake
    \/ Tick
    \/ aws_list_dir_ok
    \/ aws_list_dir_fail
    \/ peer_get_candle_ok
    \/ peer_get_candle_fail
    \/ peer_poll_check
    \/ peer_poll_wake
    \/ peer_Tick
    \/ peer_aws_list_dir_ok
    \/ peer_aws_list_dir_fail

ConcSpec == ConcInit /\ [][ConcNext]_vars

\* ================================================================ claims
Polling == op = "fetch_recent_closed_candle"

\* the latest klines response holds a bar with open time >= run_time
ShowsClosure == \E i \in DOMAIN data : data[i][1] >= run_time * 1000

\* frame holds exactly the bars of the klines response payload that open
\* before rt, each once, oldest first, with the values of that response
IsSubsetBefore(frame, payload, rt) ==
    LET before == {i \in DOMAIN payload : payload[i][1] < rt * 1000}
    IN /\ Len(frame) = Cardinality(before)
       /\ \A i \in before : \E j \in DOMAIN frame :
             /\ frame[j].candle_begin_time.instant_ms = payload[i][1]
             /\ frame[j].close = payload[i][2]
             /\ frame[j].close_time.instant_ms = payload[i][3]
       /\ \A i, j \in DOMAIN frame :
             i < j => frame[i].candle_begin_time.instant_ms
                        < frame[j].candle_begin_time.instant_ms

\* C1: fetch_recent_closed_candle returns is_closed = True only if the fetch
\* of its final poll held a candle with open time >= run_time; a poller
\* whose last fetch shows no such candle returns is_closed = False.
C1_NoFabricatedClosure ==
    (Polling /\ pc = "done") => (ret.is_closed => ShowsClosure)

C1_Witness ==
    /\ Polling /\ pc = "done" /\ ~ret.is_closed /\ fetches >= 2
    /\ now >= run_time /\ data # <<>>

\* C2: once a fetch holds a candle with open time >= run_time the poller
\* neither fetches nor sleeps again, and it returns CLOSED with exactly the
\* candles of that fetch that open before run_time.
C2_ClosedResult ==
    /\ []((Polling /\ pc = "done" /\ ShowsClosure) =>
            (ret.is_closed /\ IsSubsetBefore(ret.df, data, run_time)))
    /\ [][(Polling /\ fetches >= 1 /\ ShowsClosure) =>
            (fetches' = fetches /\ sleeps' = sleeps /\ attempts' = attempts
             /\ data' = data)]_vars

C2_Witness ==
    /\ Polling /\ pc = "done" /\ fetches = 2 /\ ret.is_closed
    /\ \E i \in DOMAIN data : data[i][1] = run_time * 1000
    /\ ret.df # <<>> /\ Len(ret.df) < Len(data)

\* C3: with the clock advancing and the event loop running, the poller
\* ends; it keeps polling only while now - run_time <= timeout, and when it
\* ends on a fetch that shows no closure the clock is past run_time +
\* timeout, the result is the open-time < run_time subset of that last
\* fetch, is_closed is False and nothing is fetched afterwards.  It ends
\* otherwise only by a fetch that showed closure or a fetch that failed on
\* every attempt.
C3_TimeoutTerminates ==
    /\ (Polling => <>Terminal)
    /\ []((Polling /\ pc = "sleep") => (wake - 1) - run_time <= expire_sec)
    /\ []((Polling /\ pc = "done" /\ ~ShowsClosure) =>
            /\ now - run_time > expire_sec
            /\ ~ret.is_closed
            /\ IsSubsetBefore(ret.df, data, run_time))
    /\ []((Polling /\ pc = "raised") => (attempts = cap /\ err = RequestError(cap)))
    /\ [][(Polling /\ pc = "done") => (fetches' = fetches /\ attempts' = attempts)]_vars

C3_Witness ==
    /\ Polling /\ pc = "done" /\ ~ret.is_closed /\ fetches >= 2 /\ sleeps >= 1
    /\ now = run_time + expire_sec + 1
    /\ ret.df # <<>>

Listing == op = "aws_list_dir"

\* every key of every page of the backing listing
AllPageKeys == UNION {Range(PageKeys(i)) : i \in DOMAIN pages}

IsAscending(s) == \A i, j \in DOMAIN s : i < j => s[i] < s[j]

\* C4: for any paginated listing whose page fetches succeed, aws_list_dir
\* returns the keys of all pages, each once, in ascending order.
C4_CompleteListing ==
    (Listing /\ Terminal /\ err.type # "RequestError") =>
        /\ pc = "done"
        /\ Range(ret) = AllPageKeys
        /\ IsAscending(ret)

\* C5: a page fetch that fails on every attempt of the executor makes
\* aws_list_dir raise that failure; no key list is returned, whatever was
\* accumulated from earlier pages.
C5_NoPartialListing ==
    (Listing /\ exec_log.outcome = "raised") =>
        (pc = "raised" /\ err = RequestError(cap) /\ ret = <<>>)

C5_Witness ==
    /\ Listing /\ pc = "raised" /\ err = RequestError(cap)
    /\ Len(trail) = 2 /\ results # <<>>

\* the keys a parsed response carries, of either kind
ResponseKeys(xml_data) ==
    (IF "CommonPrefixes" \in DOMAIN xml_data
     THEN {xml_data["CommonPrefixes"].items[j]["Prefix"] :
              j \in DOMAIN xml_data["CommonPrefixes"].items}
     ELSE {})
    \cup
    (IF "Contents" \in DOMAIN xml_data
     THEN {xml_data["Contents"].items[j]["Key"] :
              j \in DOMAIN xml_data["Contents"].items}
     ELSE {})

LastKey(xml_data) ==
    CHOOSE k \in ResponseKeys(xml_data) : \A x \in ResponseKeys(xml_data) : x <= k

\* C6: after a truncated response, the url of the next request (and of its
\* retries) is the original prefix query plus one marker, the last key of
\* that response.
C6_MarkerIsLastKey ==
    (Listing /\ pc = "list" /\ trail # <<>>) =>
        /\ data["IsTruncated"] = "true"
        /\ url = base_url \o <<LastKey(data)>>

C6_Witness ==
    /\ Listing /\ pc = "list" /\ Len(trail) = 2 /\ attempts = 1
    /\ url = <<pages[2].hi>> /\ pages[2].hi > pages[2].lo

MarketOps == {"get_timestamp_and_weight", "get_candle", "get_syminfo", "get_funding_rate"}

\* C8: in each of the four public Market API operations a failure of the
\* aioreq_* call reaches the caller only after the Retry Executor has used
\* all its attempts: cap network attempts were made, so with a cap of two
\* or more a single failure is retried.
C8_AllOpsRetried ==
    (op \in MarketOps /\ pc = "raised" /\ err.type = "RequestError") =>
        attempts = cap

\* C9: on the spot variant get_funding_rate returns, and returns an empty
\* result.
C9_SpotFundingEmpty ==
    (op = "get_funding_rate" /\ variant = "spot" /\ Terminal) =>
        (pc = "done" /\ ret = <<>>)

\* the field of a parsed rule is there and is a Decimal
IsDecimalField(rule, k) == k \in DOMAIN rule /\ rule[k].py = "Decimal"

\* the exchange sent the filter with a value decimal.Decimal accepts
SentDecimal(info, type, field) ==
    \E i \in DOMAIN info["filters"] :
        /\ info["filters"][i]["filterType"] = type
        /\ info["filters"][i][field] \in {PyStr(d) : d \in DecimalLiterals}

\* C10: for every variant, get_syminfo returns a mapping only if every
\* symbol's tick size, step size and notional filter is there and parses as
\* a decimal, and every rule of the mapping has all three as Decimals.
C10_FailClosed ==
    (op = "get_syminfo" /\ pc = "done") =>
        /\ \A sym \in DOMAIN ret :
              /\ IsDecimalField(ret[sym], "price_tick")
              /\ IsDecimalField(ret[sym], "face_value")
              /\ IsDecimalField(ret[sym], "min_notional_value")
        /\ \A i \in DOMAIN data :
              /\ SentDecimal(data[i], "PRICE_FILTER", "tickSize")
              /\ SentDecimal(data[i], "LOT_SIZE", "stepSize")
              /\ SentDecimal(data[i], NotionalFilter(variant)[1], NotionalFilter(variant)[2])

\* the fields a symbol rule of variant v has to carry
RuleShape(v) ==
    {"symbol", "status", "base_asset", "quote_asset", "price_tick", "face_value",
     "min_notional_value"}
    \cup (IF v = "spot" THEN {} ELSE {"margin_asset"})

\* the exchangeInfo field the variant reports a symbol's status in
StatusField(v) == IF v = "coin_futures" THEN "contractStatus" ELSE "status"

\* C11: on every variant each rule get_syminfo returns carries symbol,
\* status, base asset, quote asset, price tick, lot step and minimum
\* notional value (and margin asset on the two futures variants), and its
\* status is the one the exchange reported for that symbol.
C11_OneShape ==
    (op = "get_syminfo" /\ pc = "done") =>
        \A i \in DOMAIN data :
            LET rule == ret[data[i]["symbol"]]
            IN /\ RuleShape(variant) \subseteq DOMAIN rule
               /\ rule["symbol"] = data[i]["symbol"]
               /\ rule["status"] = data[i][StatusField(variant)]

Downloading == op = "aws_download_into_folder"

\* C12: aws_download_into_folder leaves the destination directory in place
\* and runs the transfer tool once: aria2c with -c (resume), -d output_dir,
\* -Z, then one uri per key, DOWNLOAD_URL + key, in the order of the keys.
C12_OneInvocation ==
    /\ Downloading => Len(procs) <= 1
    /\ (Downloading /\ pc = "done") =>
          /\ output_dir \in dirs
          /\ Len(procs) = 1
          /\ LET args == procs[1].args
             IN /\ Len(args) = 5 + Len(paths)
                /\ args[1] = <<"aria2c">>
                /\ args[2] = <<"-c">>
                /\ <<args[3], args[4]>> = <<<<"-d">>, output_dir>>
                /\ \A i \in DOMAIN paths : args[5 + i] = DOWNLOAD_URL \o paths[i]

C12_Witness ==
    /\ Downloading /\ pc = "done"
    /\ Len(paths) = 2 /\ paths[1] # paths[2]
    /\ Len(output_dir) = 2
    /\ procs[1].args[7] = PREFIX \o <<"/">> \o paths[2]

\* C16: when aws_download_into_folder returns normally, every requested
\* object has been transferred.
C16_FailureSurfaced ==
    (Downloading /\ pc = "done") => transferred = Range(SourceUrls(paths))

\* C13: a second aws_list_dir on the same prefix, against the same backing
\* listing, returns the very sequence the first call returned, in ascending
\* order, however many attempts the pages took in either call.
C13_Idempotent ==
    /\ (Listing /\ run = 2 /\ pc = "done") => (ret = first_ret /\ IsAscending(ret))
    /\ (Listing /\ run = 2 /\ pc = "raised") => err.type = "RequestError"

C13_Witness ==
    /\ Listing /\ run = 2 /\ pc = "done"
    /\ Len(trail) >= 2 /\ Len(ret) >= 3
    /\ exec_log.invoked = 2
    /\ \E i \in 1..(Len(pages) - 1) : pages[i + 1].lo = pages[i].hi

\* C15: a candle fetch of the poller that fails on every attempt of the
\* executor makes fetch_recent_closed_candle raise that failure: no result,
\* closed or timed out, is returned, whatever the earlier polls fetched.
C15_PollerPropagates ==
    (Polling /\ exec_log.outcome = "raised") =>
        (pc = "raised" /\ err = RequestError(cap) /\ ret = <<>> /\ ~is_closed)

C15_Witness ==
    /\ Polling /\ pc = "raised" /\ err = RequestError(cap)
    /\ cap >= 2 /\ fetches >= 2 /\ df # <<>>
    /\ now - run_time > expire_sec

\* C17: the poller sleeps once, for one second, between two consecutive
\* fetches, and nowhere else: none before the first fetch, none after the
\* last, and it is suspended only in a fetch or in that sleep.
C17_OneSleepBetweenFetches ==
    /\ [](Polling =>
            /\ pc \in {"get_candle", "check", "sleep", "done", "raised"}
            /\ fetches = 0 => (sleeps = 0 /\ pc \in {"get_candle", "raised"})
            /\ pc \in {"get_candle", "raised"} => sleeps = fetches
            /\ pc \in {"check", "sleep", "done"} => sleeps = fetches - 1)
    /\ [][Polling =>
            /\ fetches' # fetches => (fetches' = fetches + 1 /\ sleeps' = sleeps)
            /\ sleeps' # sleeps =>
                  (sleeps' = sleeps + 1 /\ fetches' = fetches /\ pc = "sleep"
                   /\ now >= wake)
            /\ (pc # "sleep" /\ pc' = "sleep") => wake' = now + 1
            /\ (pc = "sleep" /\ pc' # "sleep") => (pc' = "get_candle" /\ sleeps' = sleeps + 1)]_vars

C17_Witness ==
    /\ Polling /\ pc = "done" /\ fetches = 3 /\ sleeps = 2 /\ ret.is_closed

\* C20: every poll checks closure first and the timeout second, and the
\* poller fetches before it checks anything: it returns only after a fetch,
\* a fetch that shows a candle with open time >= run_time gives CLOSED even
\* with the clock past run_time + timeout, and TIMED_OUT comes only from a
\* poll whose own fetch showed no such candle.
C20_ClosureBeforeTimeout ==
    /\ (Polling /\ pc = "done") =>
          /\ fetches >= 1
          /\ ShowsClosure => ret.is_closed
          /\ ~ret.is_closed => (~ShowsClosure /\ Expired(now, run_time, expire_sec))
    /\ (Polling /\ pc = "check") => fetches >= 1
    /\ (Polling /\ pc = "raised") => attempts >= 1

C20_Witness ==
    /\ Polling /\ pc = "done" /\ ret.is_closed
    /\ fetches = 1 /\ sleeps = 0
    /\ now - run_time > expire_sec

\* C18: unless a page fails on every attempt, aws_list_dir ends having
\* received every page of the listing once, in order, up to the one that is
\* not truncated, and none after it.
C18_StopsAtFinalPage ==
    (Listing /\ Terminal /\ err.type # "RequestError") =>
        trail = [i \in 1..Len(pages) |-> i]

\* C19: every entry of a page that carries both sub-prefixes and object
\* keys is in the listing aws_list_dir returns.
C19_MixedPageComplete ==
    (Listing /\ pc = "done") =>
        \A i \in DOMAIN pages :
            (PagePrefixes(i) # <<>> /\ PageContents(i) # <<>>) =>
                Range(PageKeys(i)) \subseteq Range(ret)

\* the locals of the first task's call
MainFrame ==
    <<pc, attempts, exec_log, err, data, ret, run_time, df, is_closed, fetches, sleeps,
      wake, url, results, trail>>

\* what a poller running alone returns when the poll it ends on fetched
\* payload: the bars of payload before rt, closed iff payload has a bar at or
\* after rt
PolledAlone(payload, rt) ==
    [df |-> BeforeRunTime(DataFrame(payload), rt),
     is_closed |-> \E i \in DOMAIN payload : payload[i][1] >= rt * 1000]

\* what aws_list_dir running alone returns for the backing listing
ListedAlone ==
    SortedSeq(UNION {Range(PageEntries(ListBucketResult(i)).keys) : i \in DOMAIN pages})

\* C14: of two pollers, or two listings, interleaved on one event loop,
\* each returns what it would return alone on what it fetched itself, and
\* no step of one task changes a local of the other.
C14_NoInterference ==
    /\ []((Polling /\ pc = "done") => ret = PolledAlone(data, run_time))
    /\ []((Polling /\ peer.pc = "done") => peer.ret = PolledAlone(peer.data, peer.run_time))
    /\ []((Listing /\ pc = "done") => ret = ListedAlone)
    /\ []((Listing /\ peer.pc = "done") => peer.ret = ListedAlone)
    /\ [][peer' # peer => MainFrame' = MainFrame]_vars
    /\ [][MainFrame' # MainFrame => peer' = peer]_vars

C14_Witness ==
    /\ Polling /\ pc = "done" /\ ret.is_closed /\ ret.df # <<>> /\ fetches >= 2
    /\ peer.pc = "check" /\ peer.df # <<>> /\ peer.run_time # run_time
====
